---- MODULE Spec2Model ----
(***************************************************************************)
(* Model of the HubSpot auditor backend (src/server.js and the earlier     *)
(* revision src/unnamed/part_000): the token lifecycle manager            *)
(* getValidAccessToken, the authorization callback, the /api/audit         *)
(* sampling handler and the uncapped /api/stale-reports and                *)
(* /api/inactive-workflows scans.                                          *)
(*                                                                         *)
(* Every await of the source is a point where other requests may run, so   *)
(* each handler is cut into one action per continuation.  Time is counted  *)
(* in whole seconds: Date.now() + expires_in * 1000 (milliseconds) is      *)
(* now + expires_in here, and the ISO-8601 text stored in expires_at is    *)
(* the instant it denotes.  The Credential Store is the table              *)
(* `installations`, a set of rows keyed by hubspot_portal_id; it answers   *)
(* every query (transport failures of the store are not modelled).         *)
(***************************************************************************)
EXTENDS Integers, Sequences, FiniteSets, Bags, TLC

\* ------------------------------------------------------------------ bounds
MaxTick == 2
MaxIssued == 3
MaxPageLen == 2
MaxScanPages == 2
MaxKeys == 2

\* --------------------------------------------------------- program constants
Day == 86400
StartDay == 200
MaxSamplePages == 10
StaleDays == 180

\* ------------------------------------------------------------------- domains
Procs == {"r1", "r2"}
Portals == {"A", "B"}
StartTime == StartDay * Day
ExpiresInValues == {0, 1}
NoRow == [none |-> TRUE]
Undefined == [undefined |-> TRUE]
\* A numeric local that has not been assigned yet.
Unset == 0 - 1

VARIABLES
    installations,  \* the Credential Store table
    now,            \* the clock, in seconds
    issued,         \* credentials handed out so far by the remote token endpoint
    pc,             \* each request's position in its handler
    endpoint,       \* the route a request is serving ("none": a bare call)
    portalId,       \* getValidAccessToken's argument
    installation,   \* the row destructured at line 30 (or NoRow)
    access_token,   \* the local of line 30, reassigned at line 39
    newTokens,      \* the token endpoint's response of line 32
    newExpiresAt,   \* the local of line 40
    result,         \* what getValidAccessToken returned or threw
    checkedAt,      \* the value of new Date() at line 31
    refreshCalls,   \* POSTs to the token endpoint made by the current call
    storeWrites,    \* writes to the Credential Store made by the current call
    cb,             \* the authorization callback in flight
    variant,        \* which revision of /api/audit runs: "server.js" or "part_000"
    response,       \* what the handler sent with res (status and body), or NoResponse
    apiRequests,    \* requests made to the remote record, report and workflow APIs
    allProperties,  \* /api/audit: propertiesData.results
    totalRecords,   \* /api/audit: totalCountData.total
    recordsSample,  \* /api/audit: the sample, as a bag of records
    after,          \* the pagination cursor of the handler's loop
    i,              \* /api/audit: the loop counter of line 127
    sampleRequests, \* /api/audit: page requests issued by the sampling loop
    inFlight,       \* page requests awaiting their response
    pageResponse,   \* the last page response (sampleResponse, response): its ok flag
    allReports,     \* /api/stale-reports: the reports fetched so far
    allWorkflows,   \* /api/inactive-workflows: the workflows fetched so far
    orphanedContactsData, \* /api/data-health: the body of the orphaned-contacts search
    emptyCompaniesData,   \* /api/data-health: the body of the empty-companies search
    contactSampleData,    \* /api/data-health: the body of the contact sample
    companySampleData     \* /api/data-health: the body of the company sample

gvatVars == <<portalId, installation, access_token, newTokens, newExpiresAt, result,
              checkedAt, refreshCalls, storeWrites>>

auditVars == <<allProperties, totalRecords, recordsSample, i, sampleRequests>>

scanVars == <<allReports, allWorkflows>>

healthVars == <<orphanedContactsData, emptyCompaniesData, contactSampleData, companySampleData>>

handlerVars == <<response, apiRequests, after, inFlight, pageResponse, auditVars, scanVars,
                 healthVars>>

vars == <<installations, now, issued, pc, endpoint, gvatVars, cb, variant, handlerVars>>

\* ---------------------------------------------------------- Credential Store
Row(id, rt, at, exp) ==
    [hubspot_portal_id |-> id, refresh_token |-> rt, access_token |-> at, expires_at |-> exp]

RowsOf(table, id) == {r \in table : r.hubspot_portal_id = id}

\* .select(...).eq('hubspot_portal_id', portalId).single(): data is the row when
\* exactly one row matches, otherwise data is null and error is set.
SelectSingle(table, id) ==
    IF Cardinality(RowsOf(table, id)) = 1
    THEN CHOOSE r \in RowsOf(table, id) : TRUE
    ELSE NoRow

\* The update without its .eq filter: every row is overwritten.
UpdateTokensAllRows(table, id, at, exp) ==
    {[r EXCEPT !.access_token = at, !.expires_at = exp] : r \in table}

\* The update writing access_token alone.
UpdateTokensTokenOnly(table, id, at, exp) ==
    {IF r.hubspot_portal_id = id THEN [r EXCEPT !.access_token = at] ELSE r : r \in table}

\* .update({ access_token, expires_at }).eq('hubspot_portal_id', portalId)
UpdateTokens(table, id, at, exp) ==
    {IF r.hubspot_portal_id = id
     THEN [r EXCEPT !.access_token = at, !.expires_at = exp]
     ELSE r : r \in table}

\* .upsert(row, { onConflict: 'hubspot_portal_id' })
Upsert(table, row) ==
    {r \in table : r.hubspot_portal_id # row.hubspot_portal_id} \cup {row}

\* new Date(Date.now() + expires_in * 1000).toISOString()
ExpiryFrom(t, expires_in) == t + expires_in

\* The fast path skipped: every call refreshes.
IsExpiredAlways(t, expires_at) == TRUE

\* new Date() > new Date(expires_at)
IsExpired(t, expires_at) == t > expires_at

Returned(tok) == [kind |-> "returned", value |-> tok]
Thrown(msg) == [kind |-> "thrown", value |-> msg]
NoResult == [kind |-> "pending", value |-> ""]
InstallationNotFound == "Could not find installation for portal. Please reinstall the app."
TokenRefreshFailed == "Failed to refresh access token"

\* ------------------------------------------------------------------- Init
InitialRows(id) == {Row(id, 0, 0, e) : e \in {StartTime - 1, StartTime, StartTime + 1}}

InitialTables ==
    {ra \cup rb : ra \in {{}} \cup {{r} : r \in InitialRows("A")},
                  rb \in {{}, {Row("B", 0, 0, StartTime + 1)}}}

NoCallback == [pc |-> "idle"]
NoResponse == [status |-> 0]
Variants == {"server.js", "part_000"}

InitWith(v) ==
    /\ installations \in InitialTables
    /\ now = StartTime
    /\ issued = 0
    /\ pc = [p \in Procs |-> "idle"]
    /\ endpoint = [p \in Procs |-> "none"]
    /\ portalId = [p \in Procs |-> "A"]
    /\ installation = [p \in Procs |-> NoRow]
    /\ access_token = [p \in Procs |-> Unset]
    /\ newTokens = [p \in Procs |-> Undefined]
    /\ newExpiresAt = [p \in Procs |-> Unset]
    /\ result = [p \in Procs |-> NoResult]
    /\ checkedAt = [p \in Procs |-> StartTime]
    /\ refreshCalls = [p \in Procs |-> 0]
    /\ storeWrites = [p \in Procs |-> 0]
    /\ cb = NoCallback
    /\ variant = v
    /\ response = [p \in Procs |-> NoResponse]
    /\ apiRequests = [p \in Procs |-> 0]
    /\ allProperties = [p \in Procs |-> <<>>]
    /\ totalRecords = [p \in Procs |-> 0]
    /\ recordsSample = [p \in Procs |-> EmptyBag]
    /\ after = [p \in Procs |-> Undefined]
    /\ i = [p \in Procs |-> 0]
    /\ sampleRequests = [p \in Procs |-> 0]
    /\ inFlight = [p \in Procs |-> 0]
    /\ pageResponse = [p \in Procs |-> Undefined]
    /\ allReports = [p \in Procs |-> <<>>]
    /\ allWorkflows = [p \in Procs |-> <<>>]
    /\ orphanedContactsData = [p \in Procs |-> Undefined]
    /\ emptyCompaniesData = [p \in Procs |-> Undefined]
    /\ contactSampleData = [p \in Procs |-> Undefined]
    /\ companySampleData = [p \in Procs |-> Undefined]

Init == InitWith("server.js")

\* --------------------------------------------------------------- the clock
Tick ==
    /\ now < StartTime + MaxTick
    /\ now' = now + 1
    /\ UNCHANGED <<installations, issued, pc, endpoint, gvatVars, cb, variant, handlerVars>>

\* ------------------------------------------------------ getValidAccessToken
\* A request enters getValidAccessToken(portalId): the select of line 28 is sent.
EnterGetValidAccessToken(p, id, route) ==
    /\ pc' = [pc EXCEPT ![p] = "gvat_select"]
    /\ endpoint' = [endpoint EXCEPT ![p] = route]
    /\ portalId' = [portalId EXCEPT ![p] = id]
    /\ installation' = [installation EXCEPT ![p] = NoRow]
    /\ access_token' = [access_token EXCEPT ![p] = Unset]
    /\ newTokens' = [newTokens EXCEPT ![p] = Undefined]
    /\ newExpiresAt' = [newExpiresAt EXCEPT ![p] = Unset]
    /\ result' = [result EXCEPT ![p] = NoResult]
    /\ checkedAt' = [checkedAt EXCEPT ![p] = StartTime]
    /\ refreshCalls' = [refreshCalls EXCEPT ![p] = 0]
    /\ storeWrites' = [storeWrites EXCEPT ![p] = 0]

\* A bare call of getValidAccessToken.
Call(p, id) ==
    /\ pc[p] \in {"idle", "returned", "thrown"}
    /\ endpoint[p] = "none"
    /\ issued < MaxIssued
    /\ EnterGetValidAccessToken(p, id, "none")
    /\ UNCHANGED <<installations, now, issued, cb, variant, handlerVars>>

\* Line 28: the store evaluates the select.
gvat_Select(p) ==
    /\ pc[p] = "gvat_select"
    /\ installation' = [installation EXCEPT ![p] = SelectSingle(installations, portalId[p])]
    /\ pc' = [pc EXCEPT ![p] = "gvat_check"]
    /\ UNCHANGED <<installations, now, issued, endpoint, portalId,
                   access_token, newTokens, newExpiresAt, result, checkedAt,
                   refreshCalls, storeWrites, cb, variant, handlerVars>>

\* The check of line 29 missing: a call without an Installation goes on to refresh.
CheckOutcomeUnguarded(inst, t) ==
    IF inst = NoRow THEN "refresh"
    ELSE IF IsExpired(t, inst.expires_at) THEN "refresh"
    ELSE "cached"

\* Lines 29 and 31: what the continuation after the select decides.
CheckOutcome(inst, t) ==
    IF inst = NoRow THEN "throw"
    ELSE IF IsExpired(t, inst.expires_at) THEN "refresh"
    ELSE "cached"

\* Lines 29-36 and 43: the continuation after the select.
gvat_Check(p) ==
    /\ pc[p] = "gvat_check"
    /\ checkedAt' = [checkedAt EXCEPT ![p] = now]
    /\ access_token' = [access_token EXCEPT ![p] =
           IF installation[p] = NoRow THEN Unset ELSE installation[p].access_token]
    /\ LET outcome == CheckOutcome(installation[p], now) IN
       \/ /\ outcome = "throw"
          /\ result' = [result EXCEPT ![p] = Thrown(InstallationNotFound)]
          /\ pc' = [pc EXCEPT ![p] = "thrown"]
          /\ UNCHANGED refreshCalls
       \/ /\ outcome = "refresh"
          /\ refreshCalls' = [refreshCalls EXCEPT ![p] = @ + 1]
          /\ pc' = [pc EXCEPT ![p] = "gvat_fetch"]
          /\ UNCHANGED result
       \/ /\ outcome = "cached"
          /\ result' = [result EXCEPT ![p] = Returned(access_token'[p])]
          /\ pc' = [pc EXCEPT ![p] = "returned"]
          /\ UNCHANGED refreshCalls
    /\ UNCHANGED <<installations, now, issued, endpoint, portalId,
                   installation, newTokens, newExpiresAt, storeWrites, cb,
                   variant, handlerVars>>

\* Line 37 missing: a rejected refresh falls through to the stale token.
gvat_RefreshedStale(p, ok, expires_in) ==
    /\ pc[p] = "gvat_fetch"
    /\ IF ~ok
       THEN /\ newTokens' = [newTokens EXCEPT ![p] = [ok |-> FALSE]]
            /\ result' = [result EXCEPT ![p] = Returned(access_token[p])]
            /\ pc' = [pc EXCEPT ![p] = "returned"]
            /\ UNCHANGED <<issued, access_token, newExpiresAt>>
       ELSE /\ issued' = issued + 1
            /\ newTokens' = [newTokens EXCEPT ![p] =
                   [ok |-> TRUE, access_token |-> issued + 1, expires_in |-> expires_in]]
            /\ access_token' = [access_token EXCEPT ![p] = issued + 1]
            /\ newExpiresAt' = [newExpiresAt EXCEPT ![p] = ExpiryFrom(now, expires_in)]
            /\ pc' = [pc EXCEPT ![p] = "gvat_update"]
            /\ UNCHANGED result
    /\ UNCHANGED <<installations, now, endpoint, portalId,
                   installation, checkedAt, refreshCalls, storeWrites, cb,
                   variant, handlerVars>>

\* Lines 37-41: the token endpoint has answered the refresh.
gvat_Refreshed(p, ok, expires_in) ==
    /\ pc[p] = "gvat_fetch"
    /\ IF ~ok
       THEN /\ newTokens' = [newTokens EXCEPT ![p] = [ok |-> FALSE]]
            /\ result' = [result EXCEPT ![p] = Thrown(TokenRefreshFailed)]
            /\ pc' = [pc EXCEPT ![p] = "thrown"]
            /\ UNCHANGED <<issued, access_token, newExpiresAt>>
       ELSE /\ issued' = issued + 1
            /\ newTokens' = [newTokens EXCEPT ![p] =
                   [ok |-> TRUE, access_token |-> issued + 1, expires_in |-> expires_in]]
            /\ access_token' = [access_token EXCEPT ![p] = issued + 1]
            /\ newExpiresAt' = [newExpiresAt EXCEPT ![p] = ExpiryFrom(now, expires_in)]
            /\ pc' = [pc EXCEPT ![p] = "gvat_update"]
            /\ UNCHANGED result
    /\ UNCHANGED <<installations, now, endpoint, portalId,
                   installation, checkedAt, refreshCalls, storeWrites, cb,
                   variant, handlerVars>>

\* The update of line 41 lost: the new token is returned but never stored.
gvat_UpdateLost(p) ==
    /\ pc[p] = "gvat_update"
    /\ storeWrites' = [storeWrites EXCEPT ![p] = @ + 1]
    /\ result' = [result EXCEPT ![p] = Returned(access_token[p])]
    /\ pc' = [pc EXCEPT ![p] = "returned"]
    /\ UNCHANGED <<installations, now, issued, endpoint, portalId, installation,
                   access_token, newTokens, newExpiresAt, checkedAt, refreshCalls, cb,
                   variant, handlerVars>>

\* Lines 41-43: the store applies the update and the function returns.
gvat_Update(p) ==
    /\ pc[p] = "gvat_update"
    /\ installations' = UpdateTokens(installations, portalId[p], access_token[p], newExpiresAt[p])
    /\ storeWrites' = [storeWrites EXCEPT ![p] = @ + 1]
    /\ result' = [result EXCEPT ![p] = Returned(access_token[p])]
    /\ pc' = [pc EXCEPT ![p] = "returned"]
    /\ UNCHANGED <<now, issued, endpoint, portalId, installation,
                   access_token, newTokens, newExpiresAt, checkedAt, refreshCalls, cb,
                   variant, handlerVars>>

\* ------------------------------------------------------ /api/oauth-callback
\* Lines 78-93: the code is exchanged, the token info names the portal, and the
\* upsert of line 94 is sent.
OAuthCallbackExchange(id, expires_in) ==
    /\ cb.pc = "idle"
    /\ issued < MaxIssued
    /\ issued' = issued + 2
    /\ cb' = [pc |-> "upsert", row |-> Row(id, issued + 1, issued + 2, ExpiryFrom(now, expires_in))]
    /\ UNCHANGED <<installations, now, pc, endpoint, gvatVars, variant, handlerVars>>

\* Line 94: the store applies the upsert.
OAuthCallbackUpsert ==
    /\ cb.pc = "upsert"
    /\ installations' = Upsert(installations, cb.row)
    /\ cb' = NoCallback
    /\ UNCHANGED <<now, issued, pc, endpoint, gvatVars, variant, handlerVars>>

GetValidAccessTokenStep(p) ==
    \/ gvat_Select(p)
    \/ gvat_Check(p)
    \/ \E ok \in BOOLEAN, e \in ExpiresInValues : gvat_Refreshed(p, ok, e)
    \/ gvat_Update(p)

\* ----------------------------------------------------- the route handlers
Routes == {"audit", "stale-reports", "inactive-workflows"}
HealthRoutes == {"data-health"}

Response(status, body) == [status |-> status, body |-> body]

\* A request with its X-HubSpot-Portal-Id header arrives at a route; the handler
\* starts with `await getValidAccessToken(portalId)`.
RequestStart(p, id, route) ==
    /\ pc[p] = "idle"
    /\ EnterGetValidAccessToken(p, id, route)
    /\ response' = [response EXCEPT ![p] = NoResponse]
    /\ apiRequests' = [apiRequests EXCEPT ![p] = 0]
    /\ UNCHANGED <<installations, now, issued, cb, variant, after, inFlight, pageResponse,
                   auditVars, scanVars, healthVars>>

\* The catch block of every handler: res.status(500).json({ message }).
HandlerCatch(p) ==
    /\ pc[p] = "thrown"
    /\ endpoint[p] \in Routes \cup HealthRoutes
    /\ response' = [response EXCEPT ![p] = Response(500, [message |-> result[p].value])]
    /\ pc' = [pc EXCEPT ![p] = "responded"]
    /\ UNCHANGED <<installations, now, issued, endpoint, gvatVars, cb, variant,
                   apiRequests, after, inFlight, pageResponse, auditVars, scanVars, healthVars>>

\* ------------------------------------------------------------ /api/audit
\* A property value of a record: null, or a string (possibly empty).
Null == [null |-> TRUE, text |-> ""]
Str(t) == [null |-> FALSE, text |-> t]

\* r.properties[p] !== null && r.properties[p] !== ''
IsFilled(v) == ~v.null /\ v.text # ""

\* The schema entries the handler reads: name and hubspotDefined (label, type and
\* description are copied through unchanged and left out).  The names are ordinary
\* property names, none of them a member that the plain object fillCounts
\* inherits (such as constructor).
Property(name, hubspotDefined) == [name |-> name, hubspotDefined |-> hubspotDefined]

Schemas == {<<Property("email", TRUE)>>,
            <<Property("email", TRUE), Property("tier", FALSE)>>}

\* The records the remote may hold: a filled and a null value, and a record
\* without the email key that carries an empty value under a key outside the schema.
Records == {[email |-> Str("a@x.io"), tier |-> Null],
            [tier |-> Str("gold"), hs_object_id |-> Str("")]}

\* The pages the remote may answer with: up to MaxPageLen records (limit=100).
SamplePages == {[j \in 1..n |-> r] : n \in 0..MaxPageLen, r \in Records}

Totals == {0, 1, 5}
Cursors == {[after |-> "100"]}

RECURSIVE SeqToBag(_)
SeqToBag(seq) ==
    IF seq = <<>> THEN EmptyBag ELSE SetToBag({Head(seq)}) (+) SeqToBag(Tail(seq))

RECURSIVE SumOver(_, _)
SumOver(S, f) ==
    IF S = {} THEN 0
    ELSE LET x == CHOOSE y \in S : TRUE IN f[x] + SumOver(S \ {x}, f)

\* recordsSample.length
SampleLength(sample) == BagCardinality(sample)

\* Line 139: fillCounts[name] after the forEach over the sample.
FillCount(sample, name) ==
    SumOver({r \in BagToSet(sample) : name \in DOMAIN r /\ IsFilled(r[name])}, sample)

\* A JavaScript number that is not finite (0/0, x/0).
NaN == 0 - 1

\* Math.round((n / d) * m): round half up.  JavaScript rounds the double nearest
\* to the ratio; for the totals and sample sizes drawn here that double rounds as
\* the exact ratio does, which the integer arithmetic below computes.
RoundRatio(n, d, m) ==
    IF n = NaN \/ d = NaN \/ m = NaN \/ d = 0 THEN NaN
    ELSE (2 * n * m + d) \div (2 * d)

\* The extrapolation without the division by the sample size.
EstimatedUnscaled(v, fillCountInSample, length, total) ==
    IF length > 0 THEN fillCountInSample * total ELSE 0

\* The extrapolation truncating instead of rounding.
EstimatedTruncated(v, fillCountInSample, length, total) ==
    IF length > 0 THEN (fillCountInSample * total) \div length ELSE 0

\* Line 144: estimatedTotalFillCount.
EstimatedTotalFillCount(v, fillCountInSample, length, total) ==
    IF v = "server.js"
    THEN IF length > 0 THEN RoundRatio(fillCountInSample, length, total) ELSE 0
    ELSE RoundRatio(fillCountInSample, length, total)

\* fillRate without the totalRecords > 0 guard.
FillRateUnguarded(estimated, total) == RoundRatio(estimated, total, 100)

\* Line 145: fillRate.
FillRate(estimated, total) ==
    IF total > 0 THEN RoundRatio(estimated, total, 100) ELSE 0

\* Lines 142-147: one entry of auditResults.
AuditEntry(v, prop, sample, total) ==
    LET estimated == EstimatedTotalFillCount(v, FillCount(sample, prop.name),
                                             SampleLength(sample), total)
    IN [internalName |-> prop.name, isCustom |-> ~prop.hubspotDefined,
        fillRate |-> FillRate(estimated, total), fillCount |-> estimated]

AuditResults(v, props, sample, total) ==
    [k \in 1..Len(props) |-> AuditEntry(v, props[k], sample, total)]

RECURSIVE SumFillRate(_)
SumFillRate(entries) ==
    IF entries = <<>> THEN 0
    ELSE LET rest == SumFillRate(Tail(entries))
         IN IF Head(entries).fillRate = NaN \/ rest = NaN THEN NaN
            ELSE Head(entries).fillRate + rest

\* Lines 149-150: averageCustomFillRate.
AverageCustomFillRate(entries) ==
    LET customProperties == SelectSeq(entries, LAMBDA e : e.isCustom)
    IN IF Len(customProperties) > 0
       THEN RoundRatio(SumFillRate(customProperties), Len(customProperties), 1)
       ELSE 0

\* Line 151: propertiesWithZeroFillRate.
PropertiesWithZeroFillRate(entries) ==
    Len(SelectSeq(entries, LAMBDA e : e.fillRate = 0))

\* Lines 137-153 of server.js; lines 106-127 of part_000 with its early return for
\* an empty sample.
AuditBody(v, props, sample, total) ==
    IF v = "part_000" /\ SampleLength(sample) = 0
    THEN [totalRecords |-> 0, totalProperties |-> Len(props),
          averageCustomFillRate |-> 0, propertiesWithZeroFillRate |-> Len(props),
          properties |-> [k \in 1..Len(props) |->
              [internalName |-> props[k].name, isCustom |-> ~props[k].hubspotDefined,
               fillRate |-> 0, fillCount |-> 0]]]
    ELSE LET auditResults == AuditResults(v, props, sample, total)
         IN [totalRecords |-> total, totalProperties |-> Len(auditResults),
             averageCustomFillRate |-> AverageCustomFillRate(auditResults),
             propertiesWithZeroFillRate |-> PropertiesWithZeroFillRate(auditResults),
             properties |-> auditResults]

\* Line 109: the token is there, the schema request is sent.
AuditFetchProperties(p) ==
    /\ pc[p] = "returned"
    /\ endpoint[p] = "audit"
    /\ apiRequests' = [apiRequests EXCEPT ![p] = @ + 1]
    /\ pc' = [pc EXCEPT ![p] = "audit_properties"]
    /\ UNCHANGED <<installations, now, issued, endpoint, gvatVars, cb, variant,
                   response, after, inFlight, pageResponse, auditVars, scanVars, healthVars>>

\* Lines 110-119: the schema has arrived, the count request is sent.
AuditPropertiesArrived(p, ok, schema) ==
    /\ pc[p] = "audit_properties"
    /\ IF ~ok
       THEN /\ response' = [response EXCEPT ![p] =
                   Response(500, [message |-> "Failed to fetch properties"])]
            /\ pc' = [pc EXCEPT ![p] = "responded"]
            /\ UNCHANGED <<allProperties, apiRequests>>
       ELSE /\ allProperties' = [allProperties EXCEPT ![p] = schema]
            /\ apiRequests' = [apiRequests EXCEPT ![p] = @ + 1]
            /\ pc' = [pc EXCEPT ![p] = "audit_count"]
            /\ UNCHANGED response
    /\ UNCHANGED <<installations, now, issued, endpoint, gvatVars, cb, variant,
                   after, inFlight, pageResponse, totalRecords, recordsSample, i,
                   sampleRequests, scanVars, healthVars>>

\* The request of line 129 is sent.
SendSamplePage(p) ==
    /\ apiRequests' = [apiRequests EXCEPT ![p] = @ + 1]
    /\ sampleRequests' = [sampleRequests EXCEPT ![p] = @ + 1]
    /\ pc' = [pc EXCEPT ![p] = "audit_page"]
    /\ UNCHANGED response

\* Lines 137-153: the loop is over; the results are computed and sent.
AuditRespond(p, sample, total) ==
    /\ response' = [response EXCEPT ![p] =
           Response(200, AuditBody(variant, allProperties[p], sample, total))]
    /\ pc' = [pc EXCEPT ![p] = "responded"]
    /\ UNCHANGED <<apiRequests, sampleRequests>>

\* Lines 120-129: the count has arrived; the sampling loop is entered.
AuditCountArrived(p, ok, total) ==
    /\ pc[p] = "audit_count"
    /\ IF ~ok
       THEN /\ response' = [response EXCEPT ![p] =
                   Response(500, [message |-> "Failed to fetch total record count"])]
            /\ pc' = [pc EXCEPT ![p] = "responded"]
            /\ UNCHANGED <<totalRecords, recordsSample, after, i, apiRequests,
                           sampleRequests, inFlight>>
       ELSE /\ totalRecords' = [totalRecords EXCEPT ![p] = total]
            /\ recordsSample' = [recordsSample EXCEPT ![p] = EmptyBag]
            /\ after' = [after EXCEPT ![p] = Undefined]
            /\ i' = [i EXCEPT ![p] = 0]
            /\ IF variant = "part_000" \/ total > 0
               THEN SendSamplePage(p) /\ inFlight' = [inFlight EXCEPT ![p] = @ + 1]
               ELSE AuditRespond(p, EmptyBag, total) /\ UNCHANGED inFlight
    /\ UNCHANGED <<installations, now, issued, endpoint, gvatVars, cb, variant,
                   allProperties, pageResponse, scanVars, healthVars>>

\* The loop without its page cap.
LoopContinuesUncapped(k) == TRUE

\* The loop header of line 127, after i++.
LoopContinues(k) == k < MaxSamplePages

\* A failed sample page treated like a failed scan page: thrown and caught.
SamplePageFailedThrows(p) ==
    /\ response' = [response EXCEPT ![p] =
           Response(500, [message |-> "Failed to fetch sample"])]
    /\ pc' = [pc EXCEPT ![p] = "responded"]
    /\ inFlight' = [inFlight EXCEPT ![p] = @ - 1]
    /\ UNCHANGED <<recordsSample, after, i, apiRequests, sampleRequests>>

\* Line 130: `if (!sampleResponse.ok) break;` and what follows the loop.
SamplePageFailed(p) ==
    /\ AuditRespond(p, recordsSample[p], totalRecords[p])
    /\ inFlight' = [inFlight EXCEPT ![p] = @ - 1]
    /\ UNCHANGED <<recordsSample, after, i>>

\* Lines 130-134 and the loop header of line 127: a page has arrived.
AuditPageArrived(p, ok, page, next) ==
    /\ pc[p] = "audit_page"
    /\ pageResponse' = [pageResponse EXCEPT ![p] = [ok |-> ok]]
    /\ IF ~ok
       THEN SamplePageFailed(p)
       ELSE LET sample == recordsSample[p] (+) SeqToBag(page) IN
            /\ recordsSample' = [recordsSample EXCEPT ![p] = sample]
            /\ IF next # Undefined
               THEN /\ after' = [after EXCEPT ![p] = next]
                    /\ i' = [i EXCEPT ![p] = @ + 1]
                    /\ IF LoopContinues(i[p] + 1)
                       THEN SendSamplePage(p) /\ inFlight' = inFlight
                       ELSE /\ AuditRespond(p, sample, totalRecords[p])
                            /\ inFlight' = [inFlight EXCEPT ![p] = @ - 1]
               ELSE /\ AuditRespond(p, sample, totalRecords[p])
                    /\ inFlight' = [inFlight EXCEPT ![p] = @ - 1]
                    /\ UNCHANGED <<after, i>>
    /\ UNCHANGED <<installations, now, issued, endpoint, gvatVars, cb, variant,
                   allProperties, totalRecords, scanVars, healthVars>>

AuditStep(p) ==
    \/ AuditFetchProperties(p)
    \/ \E ok \in BOOLEAN, schema \in Schemas : AuditPropertiesArrived(p, ok, schema)
    \/ \E ok \in BOOLEAN, total \in Totals : AuditCountArrived(p, ok, total)
    \/ \E ok \in BOOLEAN, page \in SamplePages, next \in {Undefined} \cup Cursors :
          AuditPageArrived(p, ok, page, next)

\* ----------------------------- /api/stale-reports, /api/inactive-workflows
Report(id, updatedAt) == [id |-> id, updatedAt |-> updatedAt]
Workflow(id, enabled, updatedAt) == [id |-> id, enabled |-> enabled, updatedAt |-> updatedAt]

\* What the remote holds; a page is a stretch of at most MaxPageLen of them.
ReportCatalogue ==
    <<Report(1, StartTime - 179 * Day), Report(2, StartTime - 181 * Day),
      Report(3, StartTime - 180 * Day), Report(4, StartTime - 190 * Day + 3600)>>

WorkflowCatalogue ==
    <<Workflow(1, FALSE, StartTime - 3 * Day), Workflow(2, TRUE, StartTime - 2 * Day),
      Workflow(3, FALSE, StartTime - Day + 60)>>

PagesOf(catalogue) ==
    {q \in {SubSeq(catalogue, a, b) : a \in 1..Len(catalogue), b \in 0..Len(catalogue)} :
        Len(q) <= MaxPageLen}

\* report.updatedAt.split('T')[0], as the number of the day
DateOnly(t) == t \div Day

\* The comparators of lines 210 and 235 on the date-only updatedAt.
Before(a, b, ascending) ==
    IF ascending THEN a.updatedAt < b.updatedAt ELSE a.updatedAt > b.updatedAt

\* Array.prototype.sort with that comparator: a stable insertion sort.
RECURSIVE InsertBy(_, _, _)
InsertBy(x, sorted, ascending) ==
    IF sorted = <<>> THEN <<x>>
    ELSE IF Before(x, Head(sorted), ascending) THEN <<x>> \o sorted
    ELSE <<Head(sorted)>> \o InsertBy(x, Tail(sorted), ascending)

RECURSIVE SortBy(_, _)
SortBy(seq, ascending) ==
    IF seq = <<>> THEN <<>>
    ELSE InsertBy(seq[Len(seq)], SortBy(SubSeq(seq, 1, Len(seq) - 1), ascending), ascending)

Summary(item) == [id |-> item.id, updatedAt |-> DateOnly(item.updatedAt)]

MapSummary(seq) == [k \in 1..Len(seq) |-> Summary(seq[k])]

\* Lines 206-207: new Date() moved back 180 calendar days (a server clock
\* without daylight-saving shifts).
StaleThreshold(t) == t - StaleDays * Day

\* The filter of line 208 with <= in place of <.
StaleReportsInclusive(reports, t) ==
    SortBy(MapSummary(SelectSeq(reports, LAMBDA r : r.updatedAt <= StaleThreshold(t))),
           TRUE)

\* Lines 208-210.
StaleReports(reports, t) ==
    SortBy(MapSummary(SelectSeq(reports, LAMBDA r : r.updatedAt < StaleThreshold(t))),
           TRUE)

\* Lines 233-235.
InactiveWorkflows(workflows) ==
    SortBy(MapSummary(SelectSeq(workflows, LAMBDA w : w.enabled = FALSE)),
           FALSE)

ScanRoutes == {"stale-reports", "inactive-workflows"}

ScanFailed(route) ==
    IF route = "stale-reports" THEN "Failed to fetch reports." ELSE "Failed to fetch workflows."

\* Lines 196-200 (223-227): the token is there, the first page is requested.
ScanFetchFirst(p) ==
    /\ pc[p] = "returned"
    /\ endpoint[p] \in ScanRoutes
    /\ allReports' = [allReports EXCEPT ![p] = <<>>]
    /\ allWorkflows' = [allWorkflows EXCEPT ![p] = <<>>]
    /\ after' = [after EXCEPT ![p] = Undefined]
    /\ apiRequests' = [apiRequests EXCEPT ![p] = @ + 1]
    /\ inFlight' = [inFlight EXCEPT ![p] = @ + 1]
    /\ pc' = [pc EXCEPT ![p] = "scan_page"]
    /\ UNCHANGED <<installations, now, issued, endpoint, gvatVars, cb, variant,
                   response, pageResponse, auditVars, healthVars>>

\* A failed scan page treated like a failed sample page: the loop ends and the
\* items fetched so far are filtered and sent.
ScanPagePartial(p) ==
    /\ response' = [response EXCEPT ![p] =
           IF endpoint[p] = "stale-reports"
           THEN Response(200, [staleReports |-> StaleReports(allReports[p], now)])
           ELSE Response(200, [inactiveWorkflows |-> InactiveWorkflows(allWorkflows[p])])]
    /\ pc' = [pc EXCEPT ![p] = "responded"]
    /\ inFlight' = [inFlight EXCEPT ![p] = @ - 1]
    /\ UNCHANGED <<allReports, allWorkflows, after, apiRequests>>

\* Lines 201 and 212-215 (228 and 237-240): `if (!response.ok) throw`, caught by
\* the handler's catch block.
ScanPageFailed(p) ==
    /\ response' = [response EXCEPT ![p] =
           Response(500, [message |-> ScanFailed(endpoint[p])])]
    /\ pc' = [pc EXCEPT ![p] = "responded"]
    /\ inFlight' = [inFlight EXCEPT ![p] = @ - 1]
    /\ UNCHANGED <<allReports, allWorkflows, after, apiRequests>>

\* Lines 201-211 (228-236): a page has arrived.  The remote's cursor chain ends
\* within MaxScanPages pages.
ScanPageArrived(p, ok, page, next) ==
    /\ pc[p] = "scan_page"
    /\ next # Undefined => apiRequests[p] < MaxScanPages
    /\ pageResponse' = [pageResponse EXCEPT ![p] = [ok |-> ok]]
    /\ IF ~ok
       THEN ScanPageFailed(p)
       ELSE LET reports == IF endpoint[p] = "stale-reports"
                           THEN allReports[p] \o page ELSE allReports[p]
                workflows == IF endpoint[p] = "inactive-workflows"
                             THEN allWorkflows[p] \o page ELSE allWorkflows[p]
            IN
            /\ allReports' = [allReports EXCEPT ![p] = reports]
            /\ allWorkflows' = [allWorkflows EXCEPT ![p] = workflows]
            /\ IF next # Undefined
               THEN /\ after' = [after EXCEPT ![p] = next]
                    /\ apiRequests' = [apiRequests EXCEPT ![p] = @ + 1]
                    /\ UNCHANGED <<pc, response, inFlight>>
               ELSE /\ after' = [after EXCEPT ![p] = Undefined]
                    /\ response' = [response EXCEPT ![p] =
                           IF endpoint[p] = "stale-reports"
                           THEN Response(200, [staleReports |-> StaleReports(reports, now)])
                           ELSE Response(200, [inactiveWorkflows |-> InactiveWorkflows(workflows)])]
                    /\ pc' = [pc EXCEPT ![p] = "responded"]
                    /\ inFlight' = [inFlight EXCEPT ![p] = @ - 1]
                    /\ UNCHANGED apiRequests
    /\ UNCHANGED <<installations, now, issued, endpoint, gvatVars, cb, variant, auditVars, healthVars>>

ScanStep(p) ==
    \/ ScanFetchFirst(p)
    \/ \E ok \in BOOLEAN, next \in {Undefined} \cup Cursors :
          \E page \in (IF endpoint[p] = "stale-reports"
                        THEN PagesOf(ReportCatalogue) ELSE PagesOf(WorkflowCatalogue)) :
             ScanPageArrived(p, ok, page, next)

\* --------------------------------------------------------- /api/data-health
\* An identifying value of a record: null (or absent), or a string, here the
\* sequence of its characters.
NoValue == [null |-> TRUE, text |-> <<>>]
Key(chars) == [null |-> FALSE, text |-> chars]

\* String.prototype.toLowerCase, character by character.
LowerChar(c) ==
    CASE c = "A" -> "a"
      [] c = "B" -> "b"
      [] c = "C" -> "c"
      [] OTHER -> c

ToLowerCase(text) == [k \in DOMAIN text |-> LowerChar(text[k])]

\* The values the remote may hold in email or domain.
KeyValues == {NoValue, Key(<<>>), Key(<<"a">>), Key(<<"A">>), Key(<<"b">>)}

\* A sampled record with its projected property (properties=email, =domain).
Sampled(field, v) == [field |-> field, value |-> v]

\* The sample bodies the remote may answer with (limit=100): every sample of up
\* to MaxKeys records, the normalized emails a,a,b,c,c,c, and an error body
\* without results.
SampleBodies(field) ==
    {[results |-> [j \in 1..n |-> Sampled(field, f[j])]] :
        n \in 0..MaxKeys, f \in [1..MaxKeys -> KeyValues]}
    \cup {[results |-> <<Sampled(field, Key(<<"a">>)), Sampled(field, Key(<<"a">>)),
                         Sampled(field, Key(<<"b">>)), Sampled(field, Key(<<"c">>)),
                         Sampled(field, Key(<<"c">>)), Sampled(field, Key(<<"c">>))>>]}
    \cup {[message |-> "error"]}

\* The bodies a count search may answer with.
CountBodies == {[total |-> 3], [message |-> "error"]}

\* data.total || 0
TotalOrZero(data) == IF "total" \in DOMAIN data THEN data.total ELSE 0

\* contactSampleData.results || []
ResultsOrEmpty(data) == IF "results" \in DOMAIN data THEN data.results ELSE <<>>

\* Line 176: the reducer, acc[email] = (acc[email] || 0) + 1 for every record
\* whose c.properties.email?.toLowerCase() is truthy.
RECURSIVE KeyCounts(_, _)
KeyCounts(results, acc) ==
    IF results = <<>> THEN acc
    ELSE LET v == Head(results).value IN
         IF v.null \/ ToLowerCase(v.text) = <<>>
         THEN KeyCounts(Tail(results), acc)
         ELSE LET email == ToLowerCase(v.text)
                  count == IF email \in DOMAIN acc THEN acc[email] ELSE 0
              IN KeyCounts(Tail(results),
                           [k \in DOMAIN acc \cup {email} |->
                               IF k = email THEN count + 1 ELSE acc[k]])

\* Lines 176-177: Object.values(emailCounts).filter(c => c > 1).length
DuplicatesInSample(results) ==
    LET emailCounts == KeyCounts(results, [k \in {} |-> 0])
    IN Cardinality({k \in DOMAIN emailCounts : emailCounts[k] > 1})

\* part_000 reads data.results without `|| []`: reduce of undefined throws.
ReduceThrows(v, data) == v = "part_000" /\ "results" \notin DOMAIN data

NotAnArray == "Cannot read properties of undefined (reading 'reduce')"

\* Lines 164-167: the token is there, the orphaned-contacts search is sent.
HealthFetchOrphaned(p) ==
    /\ pc[p] = "returned"
    /\ endpoint[p] \in HealthRoutes
    /\ apiRequests' = [apiRequests EXCEPT ![p] = @ + 1]
    /\ orphanedContactsData' = [orphanedContactsData EXCEPT ![p] = Undefined]
    /\ emptyCompaniesData' = [emptyCompaniesData EXCEPT ![p] = Undefined]
    /\ contactSampleData' = [contactSampleData EXCEPT ![p] = Undefined]
    /\ companySampleData' = [companySampleData EXCEPT ![p] = Undefined]
    /\ pc' = [pc EXCEPT ![p] = "health_orphaned"]
    /\ UNCHANGED <<installations, now, issued, endpoint, gvatVars, cb, variant,
                   response, after, inFlight, pageResponse, auditVars, scanVars>>

\* Lines 168-171: the body is read (no check of ok), the next search is sent.
HealthOrphanedArrived(p, data) ==
    /\ pc[p] = "health_orphaned"
    /\ orphanedContactsData' = [orphanedContactsData EXCEPT ![p] = data]
    /\ apiRequests' = [apiRequests EXCEPT ![p] = @ + 1]
    /\ pc' = [pc EXCEPT ![p] = "health_empty"]
    /\ UNCHANGED <<installations, now, issued, endpoint, gvatVars, cb, variant,
                   response, after, inFlight, pageResponse, auditVars, scanVars,
                   emptyCompaniesData, contactSampleData, companySampleData>>

\* Lines 172-174: the contact sample is requested.
HealthEmptyArrived(p, data) ==
    /\ pc[p] = "health_empty"
    /\ emptyCompaniesData' = [emptyCompaniesData EXCEPT ![p] = data]
    /\ apiRequests' = [apiRequests EXCEPT ![p] = @ + 1]
    /\ pc' = [pc EXCEPT ![p] = "health_contacts"]
    /\ UNCHANGED <<installations, now, issued, endpoint, gvatVars, cb, variant,
                   response, after, inFlight, pageResponse, auditVars, scanVars,
                   orphanedContactsData, contactSampleData, companySampleData>>

\* Lines 175-179: the contact sample is reduced, the company sample is requested.
HealthContactsArrived(p, data) ==
    /\ pc[p] = "health_contacts"
    /\ contactSampleData' = [contactSampleData EXCEPT ![p] = data]
    /\ IF ReduceThrows(variant, data)
       THEN /\ response' = [response EXCEPT ![p] = Response(500, [message |-> NotAnArray])]
            /\ pc' = [pc EXCEPT ![p] = "responded"]
            /\ UNCHANGED apiRequests
       ELSE /\ apiRequests' = [apiRequests EXCEPT ![p] = @ + 1]
            /\ pc' = [pc EXCEPT ![p] = "health_companies"]
            /\ UNCHANGED response
    /\ UNCHANGED <<installations, now, issued, endpoint, gvatVars, cb, variant,
                   after, inFlight, pageResponse, auditVars, scanVars,
                   orphanedContactsData, emptyCompaniesData, companySampleData>>

\* Line 184: the body of the answer.
HealthBody(orphaned, empty, contacts, companies) ==
    [orphanedContacts |-> TotalOrZero(orphaned),
     emptyCompanies |-> TotalOrZero(empty),
     contactDuplicatesInSample |-> DuplicatesInSample(ResultsOrEmpty(contacts)),
     companyDuplicatesInSample |-> DuplicatesInSample(ResultsOrEmpty(companies))]

\* Lines 180-184: the company sample is reduced and the answer is sent.
HealthCompaniesArrived(p, data) ==
    /\ pc[p] = "health_companies"
    /\ companySampleData' = [companySampleData EXCEPT ![p] = data]
    /\ response' = [response EXCEPT ![p] =
           IF ReduceThrows(variant, data)
           THEN Response(500, [message |-> NotAnArray])
           ELSE Response(200, HealthBody(orphanedContactsData[p], emptyCompaniesData[p],
                                         contactSampleData[p], data))]
    /\ pc' = [pc EXCEPT ![p] = "responded"]
    /\ UNCHANGED <<installations, now, issued, endpoint, gvatVars, cb, variant,
                   apiRequests, after, inFlight, pageResponse, auditVars, scanVars,
                   orphanedContactsData, emptyCompaniesData, contactSampleData>>

HealthStep(p) ==
    \/ HealthFetchOrphaned(p)
    \/ \E data \in CountBodies : HealthOrphanedArrived(p, data)
    \/ \E data \in CountBodies : HealthEmptyArrived(p, data)
    \/ \E data \in SampleBodies("email") : HealthContactsArrived(p, data)
    \/ \E data \in SampleBodies("domain") : HealthCompaniesArrived(p, data)

\* ------------------------------------------------------- specifications
\* Concurrent bare calls of getValidAccessToken while the clock runs.
Next ==
    \/ Tick
    \/ \E p \in Procs, id \in Portals : Call(p, id)
    \/ \E p \in Procs : GetValidAccessTokenStep(p)

Spec == Init /\ [][Next]_vars

\* The same with the authorization callback reinstalling portals.
NextInstall ==
    \/ Next
    \/ \E id \in Portals, e \in ExpiresInValues : OAuthCallbackExchange(id, e)
    \/ OAuthCallbackUpsert

SpecInstall == Init /\ [][NextInstall]_vars

\* One request served by a route handler, in either revision of /api/audit.
ApiProcs == {"r1"}

\* Sequential calls of getValidAccessToken: each starts after the one before it
\* has returned or thrown.
NextSequential ==
    \/ Tick
    \/ \E p \in ApiProcs, id \in Portals : Call(p, id)
    \/ \E p \in ApiProcs : GetValidAccessTokenStep(p)

SpecSequential == Init /\ [][NextSequential]_vars

\* Sequential calls of getValidAccessToken interleaved with reinstalls through
\* the authorization callback.
NextReinstall ==
    \/ NextSequential
    \/ \E id \in Portals, e \in ExpiresInValues : OAuthCallbackExchange(id, e)
    \/ OAuthCallbackUpsert

SpecReinstall == Init /\ [][NextReinstall]_vars

InitApi ==
    /\ \E v \in Variants : InitWith(v)
    /\ RowsOf(installations, "B") # {}
    /\ \A r \in installations : r.expires_at # StartTime

NextApi ==
    \/ \E p \in ApiProcs, id \in Portals, route \in Routes : RequestStart(p, id, route)
    \/ \E p \in ApiProcs : GetValidAccessTokenStep(p)
    \/ \E p \in ApiProcs : HandlerCatch(p)
    \/ \E p \in ApiProcs : AuditStep(p)
    \/ \E p \in ApiProcs : ScanStep(p)

SpecApi == InitApi /\ [][NextApi]_vars

\* One request served by a scan handler while the clock runs.
NextScan ==
    \/ Tick
    \/ \E p \in ApiProcs, id \in Portals, route \in ScanRoutes : RequestStart(p, id, route)
    \/ \E p \in ApiProcs : GetValidAccessTokenStep(p)
    \/ \E p \in ApiProcs : HandlerCatch(p)
    \/ \E p \in ApiProcs : ScanStep(p)

SpecScan == Init /\ [][NextScan]_vars

\* One request served by the data-health handler, in either revision.
NextHealth ==
    \/ \E p \in ApiProcs, id \in Portals, route \in HealthRoutes : RequestStart(p, id, route)
    \/ \E p \in ApiProcs : GetValidAccessTokenStep(p)
    \/ \E p \in ApiProcs : HandlerCatch(p)
    \/ \E p \in ApiProcs : HealthStep(p)

SpecHealth == InitApi /\ [][NextHealth]_vars

\* ------------------------------------------------------------ properties
\* The call of request p is past the continuation of lines 29-31.
Checked(p) == pc[p] \notin {"idle", "gvat_select", "gvat_check"}

HasRow(p) == installation[p] # NoRow

\* C1: a call that finds an Installation and checks the clock before its
\* expires_at returns the stored access_token, has sent nothing to the token
\* endpoint and has written nothing to the Credential Store.
C1_FastPath ==
    \A p \in Procs :
        (Checked(p) /\ HasRow(p) /\ checkedAt[p] < installation[p].expires_at) =>
            /\ pc[p] = "returned"
            /\ result[p] = Returned(installation[p].access_token)
            /\ refreshCalls[p] = 0
            /\ storeWrites[p] = 0
            /\ newTokens[p] = Undefined

C1_Witness ==
    \E p \in Procs :
        /\ pc[p] = "returned"
        /\ HasRow(p)
        /\ checkedAt[p] < installation[p].expires_at
        /\ result[p] = Returned(installation[p].access_token)

\* The rows of `table` other than those of portal `id`.
OtherRows(table, id) == {r \in table : r.hubspot_portal_id # id}

\* C2: a call that saw expires_at in the past and whose refresh succeeded made
\* exactly one refresh call and exactly one write; the write set access_token to
\* the new token and expires_at to now + expires_in on the rows of that portal
\* only, kept their refresh_token, and the call returned the new token.
C2_Step(p) ==
    /\ (pc[p] = "gvat_fetch" /\ pc'[p] = "gvat_update") =>
          /\ newTokens'[p].ok
          /\ access_token'[p] = newTokens'[p].access_token
          /\ newExpiresAt'[p] = now + newTokens'[p].expires_in
          /\ installations' = installations
    /\ (pc[p] = "gvat_fetch" /\ pc'[p] = "thrown") => ~newTokens'[p].ok
    /\ (pc[p] # "returned" /\ pc'[p] = "returned" /\ installation'[p] # NoRow
          /\ checkedAt'[p] > installation'[p].expires_at) =>
          /\ pc[p] = "gvat_update"
          /\ newTokens[p].ok
          /\ refreshCalls'[p] = 1
          /\ storeWrites[p] = 0 /\ storeWrites'[p] = 1
          /\ result'[p] = Returned(newTokens[p].access_token)
          /\ OtherRows(installations', portalId[p]) = OtherRows(installations, portalId[p])
          /\ RowsOf(installations', portalId[p]) =
                {[r EXCEPT !.access_token = newTokens[p].access_token,
                           !.expires_at = newExpiresAt[p]] :
                     r \in RowsOf(installations, portalId[p])}

C2_RefreshOnceWriteOnce == [][\A p \in Procs : C2_Step(p)]_vars

C2_Witness ==
    \E p \in Procs :
        /\ pc[p] = "returned"
        /\ storeWrites[p] = 1
        /\ OtherRows(installations, portalId[p]) # {}
        /\ \E r \in RowsOf(installations, portalId[p]) :
              r.access_token = result[p].value /\ r.expires_at = newExpiresAt[p]

\* C3: a call returns the cached token without refreshing exactly when the clock
\* it read is before expires_at; at expires_at itself and later it refreshes.
C3_RefreshUnlessBefore ==
    \A p \in Procs :
        (Checked(p) /\ HasRow(p)) =>
            ((refreshCalls[p] = 0) <=> (checkedAt[p] < installation[p].expires_at))

\* C4: without an Installation the call throws the reinstall error, having sent
\* nothing to the token endpoint and written nothing; the route handler answers
\* 500 with that message and sends no request to the record API.
C4_InstallationNotFound ==
    \A p \in Procs :
        (Checked(p) /\ ~HasRow(p)) =>
            /\ pc[p] \in {"thrown", "responded"}
            /\ result[p] = Thrown(InstallationNotFound)
            /\ refreshCalls[p] = 0
            /\ storeWrites[p] = 0
            /\ apiRequests[p] = 0
            /\ pc[p] = "responded" =>
                  response[p] = Response(500, [message |-> InstallationNotFound])

C4_Witness ==
    \E p \in Procs :
        /\ pc[p] = "responded"
        /\ endpoint[p] = "audit"
        /\ ~HasRow(p)
        /\ RowsOf(installations, portalId[p]) = {}

\* C5: when the token endpoint rejects the refresh, the call throws the
\* refresh error in that step: the Credential Store is not touched, nothing is
\* returned and no second refresh request is made.
C5_Step(p) ==
    (pc[p] = "gvat_fetch" /\ newTokens'[p] = [ok |-> FALSE]) =>
        /\ pc'[p] = "thrown"
        /\ result'[p] = Thrown(TokenRefreshFailed)
        /\ installations' = installations
        /\ storeWrites'[p] = 0
        /\ refreshCalls'[p] = 1

C5_RefreshFailureSurfaces == [][\A p \in Procs : C5_Step(p)]_vars

C5_Witness ==
    \E p \in Procs :
        /\ pc[p] = "thrown"
        /\ result[p] = Thrown(TokenRefreshFailed)
        /\ newTokens[p] = [ok |-> FALSE]
        /\ IsExpired(checkedAt[p], installation[p].expires_at)

\* C6: however concurrent calls for one expired portal interleave, the portal
\* keeps its single row and its refresh_token, every change of the table is one
\* caller's write of its own refresh pair (access_token and expires_at
\* together), and a caller that refreshed returns the token of its own response.
C6_Step ==
    /\ \A id \in Portals :
          /\ Cardinality(RowsOf(installations, id)) <= 1
          /\ Cardinality(RowsOf(installations', id)) = Cardinality(RowsOf(installations, id))
          /\ {r.refresh_token : r \in RowsOf(installations', id)} =
                {r.refresh_token : r \in RowsOf(installations, id)}
    /\ installations' # installations =>
          \E p \in Procs :
              /\ pc[p] = "gvat_update" /\ pc'[p] = "returned"
              /\ newTokens[p].ok
              /\ OtherRows(installations', portalId[p]) = OtherRows(installations, portalId[p])
              /\ \A r \in RowsOf(installations', portalId[p]) :
                    /\ r.access_token = newTokens[p].access_token
                    /\ r.expires_at = newExpiresAt[p]
    /\ \A p \in Procs :
          (pc'[p] = "returned" /\ refreshCalls'[p] > 0) =>
              result'[p] = Returned(newTokens'[p].access_token)

C6_LastWriteWins == [][C6_Step]_vars

C6_Witness ==
    \E p, q \in Procs :
        /\ p # q
        /\ pc[p] = "returned" /\ pc[q] = "returned"
        /\ portalId[p] = portalId[q]
        /\ installation[p] = installation[q]
        /\ storeWrites[p] = 1 /\ storeWrites[q] = 1
        /\ result[p] # result[q]
        /\ \E r \in RowsOf(installations, portalId[p]) :
              r.access_token = result[q].value /\ r.expires_at = newExpiresAt[q]

\* C7: the sampling loop has at most one page request outstanding, issues at
\* most MaxSamplePages (10) of them, and while one is outstanding the loop counter
\* is below the cap and counts the requests, so the loop ends after at most 10
\* arrivals whatever the remote answers; with pages of at most MaxPageLen
\* records the sample holds at most MaxSamplePages * MaxPageLen.
C7_SamplingCapped ==
    \A p \in Procs :
        /\ sampleRequests[p] <= MaxSamplePages
        /\ inFlight[p] \in {0, 1}
        /\ pc[p] = "audit_page" =>
              /\ inFlight[p] = 1
              /\ i[p] < MaxSamplePages
              /\ sampleRequests[p] = i[p] + 1
        /\ (endpoint[p] = "audit" /\ pc[p] = "responded") => inFlight[p] = 0
        /\ SampleLength(recordsSample[p]) <= sampleRequests[p] * MaxPageLen
        /\ SampleLength(recordsSample[p]) <= MaxSamplePages * MaxPageLen

C7_Witness ==
    \E p \in Procs :
        /\ pc[p] = "responded"
        /\ response[p].status = 200
        /\ sampleRequests[p] = MaxSamplePages
        /\ i[p] = MaxSamplePages
        /\ SampleLength(recordsSample[p]) = MaxSamplePages * MaxPageLen

\* C8: a sample page that fails ends the loop in that step: no further request
\* is made, the sample stays what the earlier pages gave (empty when the first
\* page failed) and the audit answers 200 with the result computed from it.
C8_Step(p) ==
    (pc[p] = "audit_page" /\ pageResponse'[p] = [ok |-> FALSE]) =>
        /\ pc'[p] = "responded"
        /\ recordsSample'[p] = recordsSample[p]
        /\ sampleRequests'[p] = sampleRequests[p]
        /\ apiRequests'[p] = apiRequests[p]
        /\ response'[p] = Response(200, AuditBody(variant, allProperties[p],
                                                  recordsSample[p], totalRecords[p]))
        /\ sampleRequests[p] = 1 =>
              /\ recordsSample[p] = EmptyBag
              /\ \A k \in 1..Len(response'[p].body.properties) :
                    /\ response'[p].body.properties[k].fillRate = 0
                    /\ response'[p].body.properties[k].fillCount = 0

C8_PartialSampleTolerated == [][\A p \in Procs : C8_Step(p)]_vars

C8_Witness ==
    \E p \in Procs :
        /\ pc[p] = "responded"
        /\ endpoint[p] = "audit"
        /\ pageResponse[p] = [ok |-> FALSE]
        /\ sampleRequests[p] >= 2
        /\ SampleLength(recordsSample[p]) > 0
        /\ response[p].status = 200

\* C9: in the uncapped scans a page that fails, first or later, ends the
\* request in that step with a 500 that carries the error message and no list,
\* and no further page is requested.
C9_Step(p) ==
    (pc[p] = "scan_page" /\ pageResponse'[p] = [ok |-> FALSE]) =>
        /\ pc'[p] = "responded"
        /\ response'[p] = Response(500, [message |-> ScanFailed(endpoint[p])])
        /\ apiRequests'[p] = apiRequests[p]

C9_ScanFailureIsFatal == [][\A p \in Procs : C9_Step(p)]_vars

C9_Witness ==
    \E p \in Procs :
        /\ pc[p] = "responded"
        /\ endpoint[p] = "stale-reports"
        /\ pageResponse[p] = [ok |-> FALSE]
        /\ apiRequests[p] >= 2
        /\ Len(allReports[p]) > 0
        /\ response[p].status = 500

\* C10: an audit answered with totalRecords = 0 or with an empty sample reports
\* fillRate 0 and fillCount 0 for every schema property, an average of 0 and as
\* many zero-fill properties as there are properties; no result is the outcome
\* of a division by zero.
C10_ZeroRecords ==
    \A p \in Procs :
        (/\ endpoint[p] = "audit"
         /\ pc[p] = "responded"
         /\ response[p].status = 200
         /\ (totalRecords[p] = 0 \/ SampleLength(recordsSample[p]) = 0)) =>
            LET body == response[p].body IN
            /\ Len(body.properties) = Len(allProperties[p])
            /\ \A k \in 1..Len(body.properties) :
                  /\ body.properties[k].internalName = allProperties[p][k].name
                  /\ body.properties[k].fillRate = 0
                  /\ body.properties[k].fillCount = 0
            /\ body.averageCustomFillRate = 0
            /\ body.totalProperties = Len(allProperties[p])
            /\ body.propertiesWithZeroFillRate = body.totalProperties

C10_Witness ==
    \E p \in Procs :
        /\ endpoint[p] = "audit"
        /\ pc[p] = "responded"
        /\ response[p].status = 200
        /\ totalRecords[p] > 0
        /\ sampleRequests[p] = 1
        /\ SampleLength(recordsSample[p]) = 0
        /\ Len(allProperties[p]) = 2

\* An audit of request p answered with its results.
AuditAnswered(p) ==
    /\ endpoint[p] = "audit"
    /\ pc[p] = "responded"
    /\ response[p].status = 200

FilledIn(sample, name) ==
    {c \in BagToSet(sample) \X (1..SampleLength(sample)) :
        /\ c[2] <= CopiesIn(c[1], sample)
        /\ name \in DOMAIN c[1]
        /\ ~c[1][name].null
        /\ c[1][name].text # ""}

\* n is x / y rounded to the nearest integer, halves rounded up.
IsRoundHalfUp(n, x, y) == 2 * n * y <= 2 * x + y /\ 2 * x + y < 2 * (n + 1) * y

OlderThan180Days(reports, t) ==
    {k \in 1..Len(reports) : t - reports[k].updatedAt > 180 * 86400}

\* C13: when the stale-reports scan answers, its staleReports are exactly the
\* fetched reports last updated more than 180 days before that moment, each
\* once per time it was fetched: one updated exactly 181 days ago is in, one
\* updated exactly 179 or exactly 180 days ago is out.
C13_Step(p) ==
    (/\ endpoint[p] = "stale-reports"
     /\ pc[p] = "scan_page"
     /\ pc'[p] = "responded"
     /\ response'[p].status = 200) =>
        LET fetched == allReports'[p]
            stale == response'[p].body.staleReports
            older == OlderThan180Days(fetched, now)
        IN /\ Len(stale) = Cardinality(older)
           /\ \A id \in {fetched[k].id : k \in 1..Len(fetched)} :
                 Cardinality({k \in 1..Len(stale) : stale[k].id = id})
                     = Cardinality({k \in older : fetched[k].id = id})

C13_StaleExactly == [][\A p \in Procs : C13_Step(p)]_vars

\* Answered at the start time after fetching the reports updated exactly 179,
\* 181 and 180 days before: only the second is reported.
C13_Witness ==
    \E p \in Procs :
        /\ endpoint[p] = "stale-reports"
        /\ pc[p] = "responded"
        /\ response[p].status = 200
        /\ now = StartTime
        /\ Len(allReports[p]) = 3
        /\ \E k \in 1..3 : StartTime - allReports[p][k].updatedAt = 179 * 86400
        /\ \E k \in 1..3 : StartTime - allReports[p][k].updatedAt = 181 * 86400
        /\ \E k \in 1..3 : StartTime - allReports[p][k].updatedAt = 180 * 86400
        /\ Len(response[p].body.staleReports) = 1
        /\ response[p].body.staleReports[1].id = 2

\* A data-health request of p answered with its counts.
HealthAnswered(p) ==
    /\ endpoint[p] = "data-health"
    /\ pc[p] = "responded"
    /\ response[p].status = 200

\* The positions of the sampled records whose key value is not null.
NonNullAt(results) == {k \in 1..Len(results) : ~results[k].value.null}

\* The distinct lower-cased values among the positions K that occur more than
\* once among them.
RepeatedValues(results, K) ==
    {key \in {ToLowerCase(results[k].value.text) : k \in K} :
        Cardinality({k \in K : ToLowerCase(results[k].value.text) = key}) > 1}

\* C14: the duplicate counts reported are the numbers of distinct lower-cased
\* non-null emails, and domains, that occur more than once in the sample.
C14_DuplicateValues ==
    \A p \in Procs :
        HealthAnswered(p) =>
            LET contacts == ResultsOrEmpty(contactSampleData[p])
                companies == ResultsOrEmpty(companySampleData[p])
            IN /\ response[p].body.contactDuplicatesInSample
                     = Cardinality(RepeatedValues(contacts, NonNullAt(contacts)))
               /\ response[p].body.companyDuplicatesInSample
                     = Cardinality(RepeatedValues(companies, NonNullAt(companies)))

\* The same count over the values that are neither null nor the empty string:
\* what the reducer of lines 176 and 181 computes.
C14_NonEmptyDuplicateValues ==
    \A p \in Procs :
        HealthAnswered(p) =>
            LET contacts == ResultsOrEmpty(contactSampleData[p])
                companies == ResultsOrEmpty(companySampleData[p])
                NonEmptyAt(results) == {k \in NonNullAt(results) : results[k].value.text # <<>>}
            IN /\ response[p].body.contactDuplicatesInSample
                     = Cardinality(RepeatedValues(contacts, NonEmptyAt(contacts)))
               /\ response[p].body.companyDuplicatesInSample
                     = Cardinality(RepeatedValues(companies, NonEmptyAt(companies)))

\* The sample a,a,b,c,c,c answered with 2, and A,a answered with 1.
C14_Examples ==
    \E p \in Procs :
        /\ HealthAnswered(p)
        /\ Len(ResultsOrEmpty(contactSampleData[p])) = 6
        /\ response[p].body.contactDuplicatesInSample = 2
        /\ ResultsOrEmpty(companySampleData[p])
              = <<Sampled("domain", Key(<<"A">>)), Sampled("domain", Key(<<"a">>))>>
        /\ response[p].body.companyDuplicatesInSample = 1

\* The call of p has just returned from a refresh granted a positive expires_in.
RefreshedFor(p) ==
    /\ pc[p] = "returned"
    /\ newTokens[p] # Undefined
    /\ newTokens[p].ok
    /\ newTokens[p].expires_in > 0

\* Once a refresh is persisted the store holds its token and every moment before
\* the new expires_at is one at which the check of line 31 takes the fast path.
C15_Persisted ==
    \A p \in ApiProcs :
        RefreshedFor(p) =>
            LET row == SelectSingle(installations, portalId[p]) IN
            /\ row # NoRow
            /\ row.access_token = newTokens[p].access_token
            /\ row.access_token = result[p].value
            /\ row.expires_at > checkedAt[p]
            /\ \A t \in checkedAt[p]..(StartTime + MaxTick) :
                  t < row.expires_at => CheckOutcome(row, t) = "cached"

\* A later call that checks a refreshed row before its expires_at returns the
\* stored token, makes no refresh request and writes nothing; a refresh request
\* is made only once the stored expires_at has passed.
C15_Step(p) ==
    LET row == SelectSingle(installations, portalId[p]) IN
    /\ (/\ pc[p] = "gvat_check" /\ pc'[p] # "gvat_check"
        /\ HasRow(p)
        /\ installation[p].access_token > 0
        /\ now < installation[p].expires_at) =>
            /\ installation[p] = row
            /\ pc'[p] = "returned"
            /\ result'[p] = Returned(row.access_token)
            /\ refreshCalls'[p] = 0
            /\ storeWrites'[p] = 0
            /\ installations' = installations
            /\ issued' = issued
    /\ (pc[p] = "gvat_check" /\ pc'[p] = "gvat_fetch") =>
            /\ row # NoRow
            /\ now > row.expires_at

\* C15: in a sequence of calls for one account, after a refresh with a positive
\* expires_in was persisted, every later call made before the stored expires_at
\* takes the fast path (the persisted token, no refresh request, no write), so
\* a refresh happens at most once per expiry period.
C15_NoDoubleRefresh ==
    /\ []C15_Persisted
    /\ [][\A p \in ApiProcs : C15_Step(p)]_vars

\* A second call that took the fast path on the row a first call had refreshed.
C15_Witness ==
    \E p \in ApiProcs :
        LET row == SelectSingle(installations, portalId[p]) IN
        /\ pc[p] = "returned"
        /\ HasRow(p)
        /\ installation[p] = row
        /\ row.access_token > 0
        /\ checkedAt[p] < row.expires_at
        /\ result[p] = Returned(row.access_token)
        /\ refreshCalls[p] = 0
        /\ issued = 1

\* C16: whatever the interleaving of a reinstall with a refresh in flight, the
\* stored tokens stay paired: a stored access_token that a refresh was granted
\* sits in a row whose refresh_token is the one that refresh was made with, so
\* a refresh started from the previous installation never overwrites the
\* tokens of a reinstall.
C16_TokensPaired ==
    \A p \in Procs :
        \A r \in installations :
            (/\ newTokens[p] # Undefined
             /\ newTokens[p].ok
             /\ r.access_token = newTokens[p].access_token) =>
                r.refresh_token = installation[p].refresh_token

\* The route handlers when the remote answers every request it is sent.
FairSpecApi == SpecApi /\ WF_vars(NextApi)

C7_Stops == \A p \in ApiProcs : (pc[p] = "audit_page") ~> (pc[p] = "responded")

====
